---- MODULE Spec2Model ----
(***************************************************************************)
(* A model of the bounded broadcast queue of src/src/multiqueue.rs:        *)
(* MultiQueue (head, tail_cache, writers, the slot array, the read cursor) *)
(* and its handles MultiWriter, MultiReader and SingleReader.              *)
(*                                                                         *)
(* Every handle is one sequential process (the handles are Send, not       *)
(* Sync); a push or a pop is a sequence of steps, one per access to shared *)
(* memory, so that the steps of different handles interleave freely.       *)
(*                                                                         *)
(* countedindex.rs and read_cursor.rs are not part of the sources at hand. *)
(* A counted index is modelled as one counter word: its position in the    *)
(* ring is the word modulo the capacity and its generation tag is the word *)
(* itself, which is what push_multi and reload_tail_multi need, since they *)
(* hand wrap_valid_tag to get_max_diff and get_previous and compare the    *)
(* result with the transaction.  The words are kept as plain integers (the *)
(* runs are far shorter than 2^64 pushes); usize::MAX is written -1.       *)
(***************************************************************************)
EXTENDS Integers, Sequences, FiniteSets, TLC

\* ------------------------------------------------------------------ bounds
\* The capacities MultiQueue::new is called with (already powers of two).
Capacities == {1, 2}
\* A push is started while the head is below MaxPush.
MaxPush == 2
\* Operations (pushes, pops) in progress at the same time.
MaxBusy == 2
\* A handle is dropped while its group's consumer count is above MinConsumers
\* (the count is a usize: -1 stands for usize::MAX, which 0 - 1 wraps to).
MinConsumers == 0 - 1
\* Reader groups ever made: the firalive one and those of add_reader.
MaxGroups == 2
\* The handles alive at the same time (a dropped handle's name is used again).
Writers == {"w1", "w2"}
Readers == {"r1", "r2"}

\* ------------------------------------------------------------------ constants
\* countedindex::INITIAL_QUEUE_FLAG, usize::MAX as a signed word.
INITIAL_QUEUE_FLAG == 0 - 1
\* The absence of a value: an unwritten slot, an unused local.
Undef == 0 - 2
\* Option::None of get_max_diff.
NoDiff == 0 - 1

VARIABLES
    capacity,    \* MultiQueue.capacity
    head,        \* MultiQueue.head, the counter word
    tail_cache,  \* MultiQueue.tail_cache
    writers,     \* MultiQueue.writers
    wraps,       \* slot -> QueueEntry.wraps
    vals,        \* slot -> QueueEntry.val
    index,       \* group -> Reader's counted index (the counter word)
    consumers,   \* group -> Reader's consumer count
    linked,      \* the groups in the read cursor's list
    ngroups,     \* the number of groups made so far
    walive,      \* writer handle -> it exists
    wmode,       \* writer handle -> MultiWriter.state
    wpc,         \* writer handle -> where its push stands
    wtxn,        \* writer handle -> transaction (the head word it loaded)
    wtc,         \* writer handle -> the local tail_cache
    wcur,        \* writer handle -> the local current_tail
    ralive,      \* reader handle -> it exists
    rgrp,        \* reader handle -> its group (MultiReader.reader)
    rkind,       \* reader handle -> "multi" (MultiReader) or "single" (SingleReader)
    rpc,         \* reader handle -> where its pop stands
    ratt,        \* reader handle -> ctail_attempt (the index word it loaded)
    rval,        \* reader handle -> the value it read
    popped,      \* history: group -> the values its pops returned, in order
    gstart,      \* history: group -> the position it started at
    exited       \* history: the groups a handle of which has been dropped

vars == <<capacity, head, tail_cache, writers, wraps, vals, index, consumers, linked, ngroups,
          walive, wmode, wpc, wtxn, wtc, wcur,
          ralive, rgrp, rkind, rpc, ratt, rval, popped, gstart, exited>>

qvars == <<capacity, head, tail_cache, writers, wraps, vals>>
gvars == <<index, consumers, linked, ngroups>>
wvars == <<walive, wmode, wpc, wtxn, wtc, wcur>>
rvars == <<ralive, rgrp, rkind, rpc, ratt, rval>>
hvars == <<popped, gstart, exited>>

Groups == 1..MaxGroups

\* ------------------------------------------------------------------ counted index
\* The period of a counter word: position and tag together go round after Word
\* increments (a 3-bit word here, a multiple of every capacity).  The runs of
\* Spec end long before the head has gone round; those of FairSpec go round.
Word == 8

\* Arithmetic on counter words is modulo the period.
Wrap(c) == c % Word

\* Transaction::get: the slot of a counter word.
Slot(c) == c % capacity

\* Transaction::matches_previous: x is the word one lap before the transaction.
MatchesPrevious(txn, x) == Wrap(txn - capacity) = x

\* CountedIndex::get_previous: the word diff positions before count.
GetPrevious(count, diff) == Wrap(count - diff)

\* ------------------------------------------------------------------ read cursor
Max(S) == CHOOSE x \in S : \A y \in S : y <= x

\* ReadCursor::get_max_diff: the gap between count and the slowest group of the
\* list, or None when a group of the list is ahead of count (its distance behind
\* count, taken modulo the period, is half the period or more).
GetMaxDiff(count) ==
    IF \E g \in linked : Wrap(count - index[g]) >= Word \div 2 THEN NoDiff
    ELSE Max({0} \cup {Wrap(count - index[g]) : g \in linked})

\* The live reader handles, those of a group, and the groups that have some.
LiveReaders == {h \in Readers : ralive[h]}
HandlesOf(g) == {h \in LiveReaders : rgrp[h] = g}
LiveGroups == {rgrp[h] : h \in LiveReaders}

\* ------------------------------------------------------------------ Init
\* MultiQueue::new: one writer in Single state, one reader in the first group.
Init ==
    /\ capacity \in Capacities
    /\ head = 0
    /\ tail_cache = 0
    /\ writers = 1
    /\ wraps = [s \in 0..(capacity - 1) |-> INITIAL_QUEUE_FLAG]
    /\ vals = [s \in 0..(capacity - 1) |-> Undef]
    /\ index = [g \in Groups |-> 0]
    /\ consumers = [g \in Groups |-> IF g = 1 THEN 1 ELSE 0]
    /\ linked = {1}
    /\ ngroups = 1
    /\ walive = [w \in Writers |-> w = "w1"]
    /\ wmode = [w \in Writers |-> "Single"]
    /\ wpc = [w \in Writers |-> "idle"]
    /\ wtxn = [w \in Writers |-> 0]
    /\ wtc = [w \in Writers |-> 0]
    /\ wcur = [w \in Writers |-> 0]
    /\ ralive = [h \in Readers |-> h = "r1"]
    /\ rgrp = [h \in Readers |-> IF h = "r1" THEN 1 ELSE 0]
    /\ rkind = [h \in Readers |-> "multi"]
    /\ rpc = [h \in Readers |-> "idle"]
    /\ ratt = [h \in Readers |-> 0]
    /\ rval = [h \in Readers |-> Undef]
    /\ popped = [g \in Groups |-> <<>>]
    /\ gstart = [g \in Groups |-> 0]
    /\ exited = {}

\* ------------------------------------------------------------------ writer handles
\* The operations in progress.
Busy ==
    Cardinality({w \in Writers : wpc[w] \notin {"idle", "panic"}})
    + Cardinality({h \in Readers : rpc[h] # "idle"})

\* The value of a push.  Values are told apart by the position their push claims:
\* the value written for the transaction txn is named txn.
ValueOf(txn) == txn

\* A push returns (Ok or Err): the handle is idle again and its locals are dead.
WReturn(w) ==
    /\ wpc' = [wpc EXCEPT ![w] = "idle"]
    /\ wtxn' = [wtxn EXCEPT ![w] = 0]
    /\ wtc' = [wtc EXCEPT ![w] = 0]
    /\ wcur' = [wcur EXCEPT ![w] = 0]

\* After the full-queue check of push_multi and push_single on the reloaded tail:
\* Err(val) when it still matches the transaction, else on to `next`.
FullOrGo(w, new_tail, next) ==
    IF MatchesPrevious(wtxn[w], new_tail)
    THEN WReturn(w)
    ELSE /\ wpc' = [wpc EXCEPT ![w] = next]
         /\ wtc' = [wtc EXCEPT ![w] = 0]
         /\ wcur' = [wcur EXCEPT ![w] = 0]
         /\ UNCHANGED wtxn

\* A faulty push that never leaves the Multi state: a Multi handle always runs
\* push_multi, whatever the writer count.
PushNoDowngrade(w) ==
    /\ walive[w] /\ wpc[w] = "idle"
    /\ head < MaxPush /\ Busy < MaxBusy
    /\ wpc' = [wpc EXCEPT ![w] = IF wmode[w] = "Single" THEN "ps_load" ELSE "pm_load"]
    /\ UNCHANGED <<qvars, gvars, rvars, hvars, walive, wmode, wtxn, wtc, wcur>>

\* MultiWriter::push: the dispatch on the handle's state and the writer count.
Dispatch(w) ==
    /\ IF wmode[w] = "Single"
       THEN /\ wpc' = [wpc EXCEPT ![w] = "ps_load"]
            /\ UNCHANGED wmode
       ELSE IF writers = 1
            THEN /\ wmode' = [wmode EXCEPT ![w] = "Single"]
                 /\ wpc' = [wpc EXCEPT ![w] = "ps_load"]
            ELSE /\ wpc' = [wpc EXCEPT ![w] = "pm_load"]
                 /\ UNCHANGED wmode
    /\ UNCHANGED <<qvars, gvars, rvars, hvars, walive, wtxn, wtc, wcur>>

\* A push by an idle handle, followed while the head is below MaxPush.
Push(w) ==
    /\ walive[w] /\ wpc[w] = "idle"
    /\ head < MaxPush /\ Busy < MaxBusy
    /\ Dispatch(w)

\* push_multi, line 120: load the head as a transaction.
PmLoad(w) ==
    /\ wpc[w] = "pm_load"
    /\ wtxn' = [wtxn EXCEPT ![w] = head]
    /\ wpc' = [wpc EXCEPT ![w] = "pm_check"]
    /\ UNCHANGED <<qvars, gvars, rvars, hvars, walive, wmode, wtc, wcur>>

\* push_multi, lines 132-133: load tail_cache and compare it with the transaction.
PmCheck(w) ==
    /\ wpc[w] = "pm_check"
    /\ IF MatchesPrevious(wtxn[w], tail_cache)
       THEN /\ wtc' = [wtc EXCEPT ![w] = tail_cache]
            /\ wpc' = [wpc EXCEPT ![w] = "pm_scan"]
       ELSE /\ wpc' = [wpc EXCEPT ![w] = "pm_commit"]
            /\ UNCHANGED wtc
    /\ UNCHANGED <<qvars, gvars, rvars, hvars, walive, wmode, wtxn, wcur>>

\* reload_tail_multi, lines 213-217 and 222: the scan of the reader groups.
PmScan(w) ==
    /\ wpc[w] = "pm_scan"
    /\ LET d == GetMaxDiff(wtxn[w])
           current_tail == GetPrevious(wtxn[w], d)
       IN IF d = NoDiff
          THEN /\ wpc' = [wpc EXCEPT ![w] = "pm_reload"]
               /\ UNCHANGED <<wtxn, wtc, wcur>>
          ELSE IF wtc[w] = current_tail
               THEN FullOrGo(w, current_tail, "pm_commit")
               ELSE /\ wcur' = [wcur EXCEPT ![w] = current_tail]
                    /\ wpc' = [wpc EXCEPT ![w] = "pm_cas"]
                    /\ UNCHANGED <<wtxn, wtc>>
    /\ UNCHANGED <<qvars, gvars, rvars, hvars, walive, wmode>>

\* reload_tail_multi, lines 218-221: compare-exchange of tail_cache.
PmCas(w) ==
    /\ wpc[w] = "pm_cas"
    /\ IF tail_cache = wtc[w]
       THEN /\ tail_cache' = wcur[w]
            /\ FullOrGo(w, wcur[w], "pm_commit")
       ELSE /\ UNCHANGED tail_cache
            /\ FullOrGo(w, tail_cache, "pm_commit")
    /\ UNCHANGED <<capacity, head, writers, wraps, vals, gvars, rvars, hvars, walive, wmode>>

\* reload_tail_multi, lines 223-224: no diff, so load tail_cache again.
PmReload(w) ==
    /\ wpc[w] = "pm_reload"
    /\ FullOrGo(w, tail_cache, "pm_commit")
    /\ UNCHANGED <<qvars, gvars, rvars, hvars, walive, wmode>>

\* push_multi with its commit at line 143 done as a plain store of the advanced
\* head, whatever the head has become since it was loaded.
PmCommitStore(w) ==
    /\ wpc[w] = "pm_commit"
    /\ head' = Wrap(wtxn[w] + 1)
    /\ wpc' = [wpc EXCEPT ![w] = "pm_write"]
    /\ UNCHANGED <<capacity, tail_cache, writers, wraps, vals, gvars, rvars, hvars,
                   walive, wmode, wtxn, wtc, wcur>>

\* push_multi, lines 143-144: compare-exchange of the head; a failure loops with
\* the head it found.
PmCommit(w) ==
    /\ wpc[w] = "pm_commit"
    /\ IF head = wtxn[w]
       THEN /\ head' = Wrap(wtxn[w] + 1)
            /\ wpc' = [wpc EXCEPT ![w] = "pm_write"]
            /\ UNCHANGED wtxn
       ELSE /\ wtxn' = [wtxn EXCEPT ![w] = head]
            /\ wpc' = [wpc EXCEPT ![w] = "pm_check"]
            /\ UNCHANGED head
    /\ UNCHANGED <<capacity, tail_cache, writers, wraps, vals, gvars, rvars, hvars,
                   walive, wmode, wtc, wcur>>

\* push_multi, line 146: write the value into the claimed slot.
PmWrite(w) ==
    /\ wpc[w] = "pm_write"
    /\ vals' = [vals EXCEPT ![Slot(wtxn[w])] = ValueOf(wtxn[w])]
    /\ wpc' = [wpc EXCEPT ![w] = "pm_pub"]
    /\ UNCHANGED <<capacity, head, tail_cache, writers, wraps, gvars, rvars, hvars,
                   walive, wmode, wtxn, wtc, wcur>>

\* push_multi, lines 147-148: publish the tag, return Ok.
PmPub(w) ==
    /\ wpc[w] = "pm_pub"
    /\ wraps' = [wraps EXCEPT ![Slot(wtxn[w])] = wtxn[w]]
    /\ WReturn(w)
    /\ UNCHANGED <<capacity, head, tail_cache, writers, vals, gvars, rvars, hvars, walive, wmode>>

\* push_single, lines 156-157: load the head.
PsLoad(w) ==
    /\ wpc[w] = "ps_load"
    /\ wtxn' = [wtxn EXCEPT ![w] = head]
    /\ wpc' = [wpc EXCEPT ![w] = "ps_check"]
    /\ UNCHANGED <<qvars, gvars, rvars, hvars, walive, wmode, wtc, wcur>>

\* push_single, lines 161-162: load tail_cache and compare it with the transaction.
PsCheck(w) ==
    /\ wpc[w] = "ps_check"
    /\ IF MatchesPrevious(wtxn[w], tail_cache)
       THEN wpc' = [wpc EXCEPT ![w] = "ps_scan"]
       ELSE wpc' = [wpc EXCEPT ![w] = "ps_write"]
    /\ UNCHANGED <<qvars, gvars, rvars, hvars, walive, wmode, wtxn, wtc, wcur>>

\* reload_tail_single, lines 229-233: the scan; no diff is the panic of expect.
PsScan(w) ==
    /\ wpc[w] = "ps_scan"
    /\ LET d == GetMaxDiff(wtxn[w])
       IN IF d = NoDiff
          THEN /\ wpc' = [wpc EXCEPT ![w] = "panic"]
               /\ UNCHANGED wcur
          ELSE /\ wcur' = [wcur EXCEPT ![w] = GetPrevious(wtxn[w], d)]
               /\ wpc' = [wpc EXCEPT ![w] = "ps_store"]
    /\ UNCHANGED <<qvars, gvars, rvars, hvars, walive, wmode, wtxn, wtc>>

\* A faulty push_single that tries again when the queue is full instead of
\* returning Err(val).
PsStoreRetry(w) ==
    /\ wpc[w] = "ps_store"
    /\ tail_cache' = wcur[w]
    /\ wpc' = [wpc EXCEPT ![w] = IF MatchesPrevious(wtxn[w], wcur[w]) THEN "ps_check"
                                  ELSE "ps_write"]
    /\ wcur' = [wcur EXCEPT ![w] = 0]
    /\ UNCHANGED <<capacity, head, writers, wraps, vals, gvars, rvars, hvars, walive, wmode,
                   wtxn, wtc>>

\* reload_tail_single, line 234, and push_single, lines 164-166: store the tail
\* into tail_cache, then Err(val) when the queue is full.
PsStore(w) ==
    /\ wpc[w] = "ps_store"
    /\ tail_cache' = wcur[w]
    /\ FullOrGo(w, wcur[w], "ps_write")
    /\ UNCHANGED <<capacity, head, writers, wraps, vals, gvars, rvars, hvars, walive, wmode>>

\* push_single, line 168: write the value.
PsWrite(w) ==
    /\ wpc[w] = "ps_write"
    /\ vals' = [vals EXCEPT ![Slot(wtxn[w])] = ValueOf(wtxn[w])]
    /\ wpc' = [wpc EXCEPT ![w] = "ps_commit"]
    /\ UNCHANGED <<capacity, head, tail_cache, writers, wraps, gvars, rvars, hvars,
                   walive, wmode, wtxn, wtc, wcur>>

\* push_single without the head store of line 169.
PsCommitSkip(w) ==
    /\ wpc[w] = "ps_commit"
    /\ wpc' = [wpc EXCEPT ![w] = "ps_pub"]
    /\ UNCHANGED <<capacity, head, tail_cache, writers, wraps, vals, gvars, rvars, hvars,
                   walive, wmode, wtxn, wtc, wcur>>

\* push_single, line 169: commit_direct, the plain store of the advanced head.
PsCommit(w) ==
    /\ wpc[w] = "ps_commit"
    /\ head' = Wrap(wtxn[w] + 1)
    /\ wpc' = [wpc EXCEPT ![w] = "ps_pub"]
    /\ UNCHANGED <<capacity, tail_cache, writers, wraps, vals, gvars, rvars, hvars,
                   walive, wmode, wtxn, wtc, wcur>>

\* push_single, lines 170-171: publish the tag, return Ok.
PsPub(w) ==
    /\ wpc[w] = "ps_pub"
    /\ wraps' = [wraps EXCEPT ![Slot(wtxn[w])] = wtxn[w]]
    /\ WReturn(w)
    /\ UNCHANGED <<capacity, head, tail_cache, writers, vals, gvars, rvars, hvars, walive, wmode>>

\* A faulty clone that leaves the cloned handle's own state as it was (without
\* the state.set of line 364).
CloneWriterKeepState(w) ==
    /\ walive[w] /\ wpc[w] = "idle"
    /\ \E x \in Writers : ~walive[x]
    /\ LET n == CHOOSE x \in Writers : ~walive[x]
       IN /\ walive' = [walive EXCEPT ![n] = TRUE]
          /\ wmode' = [wmode EXCEPT ![n] = "Multi"]
    /\ writers' = writers + 1
    /\ UNCHANGED <<capacity, head, tail_cache, wraps, vals, gvars, rvars, hvars,
                   wpc, wtxn, wtc, wcur>>

\* Clone for MultiWriter: both handles in Multi state, one more writer.
CloneWriter(w) ==
    /\ walive[w] /\ wpc[w] = "idle"
    /\ \E x \in Writers : ~walive[x]
    /\ LET n == CHOOSE x \in Writers : ~walive[x]
       IN /\ walive' = [walive EXCEPT ![n] = TRUE]
          /\ wmode' = [wmode EXCEPT ![w] = "Multi", ![n] = "Multi"]
    /\ writers' = writers + 1
    /\ UNCHANGED <<capacity, head, tail_cache, wraps, vals, gvars, rvars, hvars,
                   wpc, wtxn, wtc, wcur>>

\* A faulty drop that forgets the fetch_sub of line 387.
DropWriterNoSub(w) ==
    /\ walive[w] /\ wpc[w] = "idle"
    /\ walive' = [walive EXCEPT ![w] = FALSE]
    /\ wmode' = [wmode EXCEPT ![w] = "Single"]
    /\ UNCHANGED <<qvars, gvars, rvars, hvars, wpc, wtxn, wtc, wcur>>

\* Drop for MultiWriter (and MultiWriter::unsubscribe, which only drops).
DropWriter(w) ==
    /\ walive[w] /\ wpc[w] = "idle"
    /\ writers' = writers - 1
    /\ walive' = [walive EXCEPT ![w] = FALSE]
    /\ wmode' = [wmode EXCEPT ![w] = "Single"]
    /\ UNCHANGED <<capacity, head, tail_cache, wraps, vals, gvars, rvars, hvars,
                   wpc, wtxn, wtc, wcur>>

\* ------------------------------------------------------------------ reader handles
\* A pop returns: the handle is idle again and its locals are dead.
RReturn(h) ==
    /\ rpc' = [rpc EXCEPT ![h] = "idle"]
    /\ ratt' = [ratt EXCEPT ![h] = 0]
    /\ rval' = [rval EXCEPT ![h] = Undef]

\* A group's pops are followed while it has returned at most MaxPush values.
MayPop(h) == Busy < MaxBusy /\ Len(popped[rgrp[h]]) <= MaxPush

\* The history of a group keeps the first MaxHist values its pops returned,
\* which is all of them in the runs of Spec.
MaxHist == MaxPush + 2
Record(hist, v) == IF Len(hist) < MaxHist THEN Append(hist, v) ELSE hist

\* reader.load_attempt, line 176 of pop and line 198 of pop_view: load the
\* group's index.
LoadAttempt(h, next) ==
    /\ ratt' = [ratt EXCEPT ![h] = index[rgrp[h]]]
    /\ rpc' = [rpc EXCEPT ![h] = next]
    /\ UNCHANGED <<qvars, gvars, wvars, hvars, ralive, rgrp, rkind, rval>>

\* MultiReader::pop and SingleReader::pop with MultiQueue::pop, by an idle handle.
Pop(h) ==
    /\ ralive[h] /\ rpc[h] = "idle" /\ MayPop(h)
    /\ LoadAttempt(h, "pop_tag")

\* A faulty pop that goes on to read the slot without the tag test of lines
\* 181-183.
PopTagBlind(h) ==
    /\ rpc[h] = "pop_tag"
    /\ rpc' = [rpc EXCEPT ![h] = "pop_read"]
    /\ UNCHANGED <<qvars, gvars, wvars, hvars, ralive, rgrp, rkind, ratt, rval>>

\* pop, lines 179-183: load the slot's tag; None unless it is the attempt's tag.
PopTag(h) ==
    /\ rpc[h] = "pop_tag"
    /\ IF wraps[Slot(ratt[h])] # ratt[h]
       THEN RReturn(h)
       ELSE /\ rpc' = [rpc EXCEPT ![h] = "pop_read"]
            /\ UNCHANGED <<ratt, rval>>
    /\ UNCHANGED <<qvars, gvars, wvars, hvars, ralive, rgrp, rkind>>

\* pop, line 185: copy the value out of the slot.
PopRead(h) ==
    /\ rpc[h] = "pop_read"
    /\ rval' = [rval EXCEPT ![h] = vals[Slot(ratt[h])]]
    /\ rpc' = [rpc EXCEPT ![h] = "pop_commit"]
    /\ UNCHANGED <<qvars, gvars, wvars, hvars, ralive, rgrp, rkind, ratt>>

\* pop, lines 186-192: compare-exchange of the group's index; Some(rval) on
\* success, else forget the value and loop with the index found.
PopCommit(h) ==
    /\ rpc[h] = "pop_commit"
    /\ LET g == rgrp[h]
       IN IF index[g] = ratt[h]
          THEN /\ index' = [index EXCEPT ![g] = Wrap(ratt[h] + 1)]
               /\ popped' = [popped EXCEPT ![g] = Record(@, rval[h])]
               /\ RReturn(h)
          ELSE /\ ratt' = [ratt EXCEPT ![h] = index[g]]
               /\ rval' = [rval EXCEPT ![h] = Undef]
               /\ rpc' = [rpc EXCEPT ![h] = "pop_tag"]
               /\ UNCHANGED <<index, popped>>
    /\ UNCHANGED <<qvars, consumers, linked, ngroups, wvars, gstart, exited, ralive, rgrp, rkind>>

\* SingleReader::pop_view and MultiQueue::pop_view, line 198: load the index.
PopView(h) ==
    /\ ralive[h] /\ rpc[h] = "idle" /\ rkind[h] = "single" /\ MayPop(h)
    /\ LoadAttempt(h, "pv_tag")

\* pop_view, lines 200-204: load the slot's tag; Err(op) unless it is the tag.
PvTag(h) ==
    /\ rpc[h] = "pv_tag"
    /\ IF wraps[Slot(ratt[h])] # ratt[h]
       THEN RReturn(h)
       ELSE /\ rpc' = [rpc EXCEPT ![h] = "pv_read"]
            /\ UNCHANGED <<ratt, rval>>
    /\ UNCHANGED <<qvars, gvars, wvars, hvars, ralive, rgrp, rkind>>

\* pop_view, line 206: op reads the value through the reference.
PvRead(h) ==
    /\ rpc[h] = "pv_read"
    /\ rval' = [rval EXCEPT ![h] = vals[Slot(ratt[h])]]
    /\ rpc' = [rpc EXCEPT ![h] = "pv_commit"]
    /\ UNCHANGED <<qvars, gvars, wvars, hvars, ralive, rgrp, rkind, ratt>>

\* pop_view, lines 207-208: commit_direct, the plain store of the advanced index.
PvCommit(h) ==
    /\ rpc[h] = "pv_commit"
    /\ index' = [index EXCEPT ![rgrp[h]] = Wrap(ratt[h] + 1)]
    /\ popped' = [popped EXCEPT ![rgrp[h]] = Record(@, rval[h])]
    /\ RReturn(h)
    /\ UNCHANGED <<qvars, consumers, linked, ngroups, wvars, gstart, exited, ralive, rgrp, rkind>>

\* The name of the handle a clone or an add_reader returns.
NewReader == CHOOSE x \in Readers : ~ralive[x]

\* MultiReader::add_reader with ReadCursor::add_reader: a new group in the list,
\* at the parent group's index at the moment of insertion, with one consumer.
AddReader(h) ==
    /\ ralive[h] /\ rpc[h] = "idle" /\ rkind[h] = "multi"
    /\ \E x \in Readers : ~ralive[x]
    /\ ngroups < MaxGroups
    /\ LET n == NewReader
           g == ngroups + 1
       IN /\ index' = [index EXCEPT ![g] = index[rgrp[h]]]
          /\ consumers' = [consumers EXCEPT ![g] = 1]
          /\ linked' = linked \cup {g}
          /\ ngroups' = g
          /\ ralive' = [ralive EXCEPT ![n] = TRUE]
          /\ rgrp' = [rgrp EXCEPT ![n] = g]
          /\ gstart' = [gstart EXCEPT ![g] = index[rgrp[h]]]
          /\ UNCHANGED <<popped, exited>>
    /\ UNCHANGED <<qvars, wvars, rkind, rpc, ratt, rval>>

\* Clone for MultiReader: another handle on the same Reader (a plain copy).
CloneReader(h) ==
    /\ ralive[h] /\ rpc[h] = "idle" /\ rkind[h] = "multi"
    /\ \E x \in Readers : ~ralive[x]
    /\ LET n == NewReader
       IN /\ ralive' = [ralive EXCEPT ![n] = TRUE]
          /\ rgrp' = [rgrp EXCEPT ![n] = rgrp[h]]
    /\ UNCHANGED <<qvars, gvars, wvars, hvars, rkind, rpc, ratt, rval>>

\* Reader::get_consumers() == 1, the test of into_single and of unsubscribe.
SoleConsumer(h) == consumers[rgrp[h]] = 1

\* MultiReader::into_single: a SingleReader when the count is 1, else the handle.
IntoSingle(h) ==
    /\ ralive[h] /\ rpc[h] = "idle" /\ rkind[h] = "multi"
    /\ SoleConsumer(h)
    /\ rkind' = [rkind EXCEPT ![h] = "single"]
    /\ UNCHANGED <<qvars, gvars, wvars, hvars, ralive, rgrp, rpc, ratt, rval>>

\* SingleReader::into_multi: the MultiReader inside.
IntoMulti(h) ==
    /\ ralive[h] /\ rpc[h] = "idle" /\ rkind[h] = "single"
    /\ rkind' = [rkind EXCEPT ![h] = "multi"]
    /\ UNCHANGED <<qvars, gvars, wvars, hvars, ralive, rgrp, rpc, ratt, rval>>

\* What unsubscribe returns, line 336, read before the handle is dropped.
UnsubscribeResult(h) == SoleConsumer(h)

\* Drop for MultiReader (MultiReader::unsubscribe and SingleReader::unsubscribe
\* return UnsubscribeResult and drop the handle): remove_consumer, and when it
\* returns 1, the count it found, remove_reader takes the group off the list.
DropReader(h) ==
    /\ ralive[h] /\ rpc[h] = "idle"
    /\ consumers[rgrp[h]] > MinConsumers
    /\ LET g == rgrp[h]
       IN /\ consumers' = [consumers EXCEPT ![g] = @ - 1]
          /\ linked' = IF consumers[g] = 1 THEN linked \ {g} ELSE linked
    /\ ralive' = [ralive EXCEPT ![h] = FALSE]
    /\ rgrp' = [rgrp EXCEPT ![h] = 0]
    /\ rkind' = [rkind EXCEPT ![h] = "multi"]
    /\ exited' = exited \cup {rgrp[h]}
    /\ UNCHANGED <<qvars, index, ngroups, wvars, popped, gstart, rpc, ratt, rval>>

\* ------------------------------------------------------------------ specification
WriterStep(w) ==
    \/ Push(w) \/ PmLoad(w) \/ PmCheck(w) \/ PmScan(w) \/ PmCas(w) \/ PmReload(w)
    \/ PmCommit(w) \/ PmWrite(w) \/ PmPub(w)
    \/ PsLoad(w) \/ PsCheck(w) \/ PsScan(w) \/ PsStore(w) \/ PsWrite(w) \/ PsCommit(w)
    \/ PsPub(w)
    \/ CloneWriter(w) \/ DropWriter(w)

ReaderOp(h) ==
    \/ Pop(h) \/ PopTag(h) \/ PopRead(h) \/ PopCommit(h)
    \/ PopView(h) \/ PvTag(h) \/ PvRead(h) \/ PvCommit(h)
    \/ AddReader(h) \/ IntoSingle(h) \/ IntoMulti(h) \/ DropReader(h)

ReaderStep(h) == ReaderOp(h) \/ CloneReader(h)

Next == (\E w \in Writers : WriterStep(w)) \/ (\E h \in Readers : ReaderStep(h))

Spec == Init /\ [][Next]_vars

\* The steps inside a push or a pop that one handle alone can take: PmReload
\* needs a stale transaction, which only another handle's steps produce.
InnerStep ==
    \/ \E w \in Writers :
          \/ PmLoad(w) \/ PmCheck(w) \/ PmScan(w) \/ PmCas(w)
          \/ PmCommit(w) \/ PmWrite(w) \/ PmPub(w)
          \/ PsLoad(w) \/ PsCheck(w) \/ PsScan(w) \/ PsStore(w) \/ PsWrite(w)
          \/ PsCommit(w) \/ PsPub(w)
    \/ \E h \in Readers :
          \/ PopTag(h) \/ PopRead(h) \/ PopCommit(h)
          \/ PvTag(h) \/ PvRead(h) \/ PvCommit(h)

\* One operation at a time: a call starts when nothing is in progress and runs
\* to its return before anything else happens (the tests' single-threaded runs).
SeqNext == (Busy = 0 /\ Next) \/ (Busy = 1 /\ InnerStep)

SeqSpec == Init /\ [][SeqNext]_vars

\* ------------------------------------------------------------------ runs that go round
\* The steps inside a push of handle w and inside a pop of handle h.
WriterInner(w) ==
    \/ PmLoad(w) \/ PmCheck(w) \/ PmScan(w) \/ PmCas(w) \/ PmReload(w)
    \/ PmCommit(w) \/ PmWrite(w) \/ PmPub(w)
    \/ PsLoad(w) \/ PsCheck(w) \/ PsScan(w) \/ PsStore(w) \/ PsWrite(w)
    \/ PsCommit(w) \/ PsPub(w)

ReaderInner(h) ==
    \/ PopTag(h) \/ PopRead(h) \/ PopCommit(h)
    \/ PvTag(h) \/ PvRead(h) \/ PvCommit(h)

\* The counter words in use: the indexes of the groups, the transactions of the
\* pushes and the attempts of the pops in progress.
InUse ==
    {index[g] : g \in LiveGroups \cup linked}
    \cup {wtxn[w] : w \in {x \in Writers : wpc[x] \notin {"idle", "panic", "pm_load", "ps_load"}}}
    \cup {ratt[h] : h \in {x \in Readers : rpc[x] # "idle"}}

\* The pushes in progress that have not advanced the head yet.
Unclaimed ==
    Cardinality({w \in Writers : wpc[w] \notin {"idle", "panic", "pm_write", "pm_pub", "ps_pub"}})

\* A push is started while every word in use stays at most MaxBehind positions
\* behind the head even when all the pushes in progress succeed, which is less
\* than half a period: a run never holds two words that mean different
\* positions and look the same.
MaxBehind == 2
Fresh == \A c \in InUse : Wrap(head - c) + Unclaimed < MaxBehind

\* The calls of runs of any length: push, pop and pop_view by an idle handle.
FairPush(w) ==
    /\ walive[w] /\ wpc[w] = "idle"
    /\ Fresh /\ Busy < MaxBusy
    /\ Dispatch(w)

FairPop(h) ==
    /\ ralive[h] /\ rpc[h] = "idle" /\ Busy < MaxBusy
    /\ LoadAttempt(h, "pop_tag")

FairPopView(h) ==
    /\ ralive[h] /\ rpc[h] = "idle" /\ rkind[h] = "single" /\ Busy < MaxBusy
    /\ LoadAttempt(h, "pv_tag")

FairNext ==
    \/ \E w \in Writers : FairPush(w) \/ WriterInner(w) \/ CloneWriter(w)
    \/ \E h \in Readers :
          \/ FairPop(h) \/ FairPopView(h) \/ ReaderInner(h)
          \/ CloneReader(h) \/ IntoSingle(h)

\* The runs that go round start from a queue of capacity 1.
FairInit == Init /\ capacity = 1

\* Every thread is scheduled again and again: a handle inside a push or a pop takes
\* its next step.  Whether a handle makes another call is up to its owner.
FairSpec ==
    /\ FairInit /\ [][FairNext]_vars
    /\ \A w \in Writers : WF_vars(WriterInner(w))
    /\ \A h \in Readers : WF_vars(ReaderInner(h))

\* ------------------------------------------------------------------ the documented clone
\* Clone for MultiReader as the documentation has it (the example of unsubscribe,
\* lines 322-334, where the clone of a handle keeps its group alive): the clone
\* counts as one more consumer of the group.  The claims below fail on the clone
\* of the source and hold under DocSpec and DocSeqSpec.
CloneReaderDoc(h) ==
    /\ ralive[h] /\ rpc[h] = "idle" /\ rkind[h] = "multi"
    /\ \E x \in Readers : ~ralive[x]
    /\ LET n == NewReader
       IN /\ ralive' = [ralive EXCEPT ![n] = TRUE]
          /\ rgrp' = [rgrp EXCEPT ![n] = rgrp[h]]
    /\ consumers' = [consumers EXCEPT ![rgrp[h]] = @ + 1]
    /\ UNCHANGED <<qvars, index, linked, ngroups, wvars, hvars, rkind, rpc, ratt, rval>>

DocNext ==
    \/ \E w \in Writers : WriterStep(w)
    \/ \E h \in Readers : ReaderOp(h) \/ CloneReaderDoc(h)

DocSpec == Init /\ [][DocNext]_vars

DocSeqNext == (Busy = 0 /\ DocNext) \/ (Busy = 1 /\ InnerStep)

DocSeqSpec == Init /\ [][DocSeqNext]_vars

\* ------------------------------------------------------------------ claims
\* The positions the head is ahead of group g.
Lag(g) == head - index[g]

\* C1 (bounded lag): in every reachable state the head is at most capacity
\* positions ahead of every live reader group, a group being live while a handle
\* of it is alive.
C1_BoundedLag == \A g \in LiveGroups : Lag(g) <= capacity

\* A pop by group g would return None now.
PopWouldFail(g) == wraps[Slot(index[g])] # index[g]

\* How often group g has popped the value v.
Count(g, v) == Cardinality({k \in 1..Len(popped[g]) : popped[g][k] = v})

\* C2 (broadcast completeness), in the form a finite run refutes: for a group no
\* consumer of which has exited, no value pushed from the group's start on is
\* popped twice, and once nothing is in progress and a pop of the group finds
\* nothing more, each of them has been popped exactly once.
C2_BroadcastComplete ==
    \A g \in LiveGroups \ exited : \A p \in gstart[g]..(head - 1) :
        /\ Count(g, ValueOf(p)) <= 1
        /\ (Busy = 0 /\ PopWouldFail(g)) => Count(g, ValueOf(p)) = 1

\* C3 (per-group FIFO): the values a group's pops returned are the values of the
\* positions from the group's start on, in the order the positions were claimed,
\* with no gap and no repeat.
C3_GroupFifo ==
    \A g \in Groups : \A k \in 1..Len(popped[g]) :
        popped[g][k] = ValueOf(gstart[g] + k - 1)

\* Nothing is in progress and no live group's pop finds anything more.
Drained == Busy = 0 /\ \A g \in LiveGroups : PopWouldFail(g)

\* C4 (work sharing): the handles of a group never return the same value twice
\* between them, and in a drained run every live group has returned as many values
\* as were pushed since it started, so pops = pushes x groups.
C4_WorkSharing ==
    \A g \in LiveGroups :
        /\ \A k1, k2 \in 1..Len(popped[g]) : popped[g][k1] = popped[g][k2] => k1 = k2
        /\ Drained => Len(popped[g]) = head - gstart[g]

\* The steps of a push: its return with Err, its return with Ok, and the steps
\* before it has claimed a position.
PushErr(w) == wpc[w] \in {"pm_scan", "pm_cas", "pm_reload", "ps_store"} /\ wpc'[w] = "idle"
PushOk(w) == wpc[w] \in {"pm_pub", "ps_pub"} /\ wpc'[w] = "idle"
Checking(w) ==
    /\ wpc[w] \in {"pm_load", "pm_check", "pm_scan", "pm_cas", "pm_reload",
                   "ps_load", "ps_check", "ps_scan", "ps_store"}
    /\ wpc'[w] \in {"idle", "pm_check", "pm_scan", "pm_cas", "pm_reload", "pm_commit",
                    "ps_check", "ps_scan", "ps_store", "ps_write"}

\* C5 (full is reported exactly and without effect), one operation at a time: a
\* push returns Ok only if the head it found was fewer than capacity positions
\* ahead of every live group and Err only if it was capacity positions ahead of
\* one, and the steps of a push up to an Err leave the head and the slots alone.
C5_FullExact ==
    [][\A w \in Writers :
          /\ PushOk(w) => \A g \in LiveGroups : wtxn[w] - index[g] < capacity
          /\ PushErr(w) => \E g \in LiveGroups : wtxn[w] - index[g] >= capacity
          /\ Checking(w) => UNCHANGED <<head, wraps, vals>>]_vars

\* C6 (empty is reported exactly and without effect): a pop returns None only on
\* a slot that does not carry the tag of its attempt, and then leaves the index
\* alone; a pop that returns a value returns the value published for its
\* attempt's position and lap and advances the group's index by exactly one.
C6_EmptyExact ==
    [][\A h \in Readers :
          /\ (rpc[h] = "pop_tag" /\ rpc'[h] = "idle") =>
                 (wraps[Slot(ratt[h])] # ratt[h] /\ index' = index)
          /\ (rpc[h] = "pop_tag" /\ rpc'[h] = "pop_read") =>
                 (wraps[Slot(ratt[h])] = ratt[h] /\ index' = index)
          /\ (rpc[h] = "pop_commit" /\ rpc'[h] = "idle") =>
                 /\ rval[h] = ValueOf(ratt[h])
                 /\ index[rgrp[h]] = ratt[h]
                 /\ index' = [index EXCEPT ![rgrp[h]] = ratt[h] + 1]]_vars

\* C7 (only live groups hold back the producer), one operation at a time: the
\* head moves past a position only when every live group has advanced past the
\* slot that position reuses, however far the other groups are, and a push
\* fails only because of a group that still has a live handle.
C7_OnlyLiveGroupsBlock ==
    [][/\ head' = head + 1 => \A g \in LiveGroups : index[g] > head - capacity
       /\ \A w \in Writers :
             PushErr(w) => \E g \in LiveGroups : index[g] = wtxn[w] - capacity]_vars

\* C8 (add_reader is linearizable): a group made by add_reader, no handle of which
\* has exited, never has a position at or after its own overwritten before it has
\* read it, and what it pops is what follows its parent's position at insertion.
C8_AddReaderLinearizable ==
    \A g \in (LiveGroups \ exited) \ {1} :
        /\ \A w \in Writers :
              wpc[w] \in {"pm_write", "pm_pub", "ps_commit", "ps_pub"} =>
                  wtxn[w] - index[g] < capacity
        /\ head - index[g] <= capacity
        /\ \A k \in 1..Len(popped[g]) : popped[g][k] = ValueOf(gstart[g] + k - 1)

\* C9 (unsubscribe): what unsubscribe would return to an idle handle is true
\* exactly when no other handle of its group is alive.
C9_UnsubscribeLast ==
    \A h \in LiveReaders :
        rpc[h] = "idle" => (UnsubscribeResult(h) <=> HandlesOf(rgrp[h]) = {h})

\* C10 (into_single): a SingleReader is the only live handle of its group, and
\* its pop_view never runs while another handle of the group pops.
C10_SingleIsAlone ==
    \A h \in LiveReaders :
        /\ rkind[h] = "single" => HandlesOf(rgrp[h]) = {h}
        /\ rpc[h] \in {"pv_tag", "pv_read", "pv_commit"} =>
               \A o \in HandlesOf(rgrp[h]) \ {h} : rpc[o] = "idle"

\* The live MultiWriter handles.
LiveWriters == {w \in Writers : walive[w]}

\* C11 (writers counter): in every reachable state the writers counter is the
\* number of live MultiWriter handles: 1 after construction, one more per clone,
\* one fewer per drop or unsubscribe.
C11_WritersCount == writers = Cardinality(LiveWriters)

\* C11's case: the first writer was cloned and then dropped, the clone lives on.
C11_Witness == ~walive["w1"] /\ walive["w2"] /\ writers = 1

\* C12 (consumer count): for every group made so far the consumer count is the
\* number of live handles of the group, and the group is in the cursor's list
\* exactly while it has a live handle.
C12_ConsumerCount ==
    \A g \in 1..ngroups :
        /\ consumers[g] = Cardinality(HandlesOf(g))
        /\ g \in linked <=> HandlesOf(g) # {}

\* A push is dispatched for handle w.
PushStarts(w) == wpc[w] = "idle" /\ wpc'[w] # "idle"

\* C13 (writer mode downgrade): a push of a handle in Multi state that finds
\* writers = 1 puts the handle into Single state and runs push_single, one that
\* finds more writers leaves it in Multi state and runs push_multi; and the
\* push_single fails only when its scan of the groups found a live group
\* capacity positions behind the head.
C13_Downgrade ==
    [][\A w \in Writers :
          /\ (PushStarts(w) /\ wmode[w] = "Multi" /\ writers = 1) =>
                 (wmode'[w] = "Single" /\ wpc'[w] = "ps_load")
          /\ (PushStarts(w) /\ wmode[w] = "Multi" /\ writers > 1) =>
                 (wmode'[w] = "Multi" /\ wpc'[w] = "pm_load")
          /\ (wpc[w] = "ps_scan" /\ wpc'[w] = "ps_store"
                 /\ MatchesPrevious(wtxn[w], wcur'[w])) =>
                 \E g \in LiveGroups : head - index[g] = capacity
          /\ (wpc[w] = "ps_store" /\ wpc'[w] = "idle") =>
                 MatchesPrevious(wtxn[w], wcur[w])]_vars

\* C13's case: the first writer was cloned and dropped, and its clone, made in
\* Multi state, is about to publish a value on the single-producer path.
C13_Witness ==
    ~walive["w1"] /\ walive["w2"] /\ wmode["w2"] = "Single" /\ wpc["w2"] = "ps_pub"

\* The steps of push_single and of pop_view in the order of the code.
Rank(pc) ==
    CASE pc \in {"ps_load", "pv_tag"} -> 1
      [] pc \in {"ps_check", "pv_read"} -> 2
      [] pc \in {"ps_scan", "pv_commit"} -> 3
      [] pc = "ps_store" -> 4
      [] pc = "ps_write" -> 5
      [] pc = "ps_commit" -> 6
      [] pc = "ps_pub" -> 7
      [] OTHER -> 8

InPushSingle(w) == Rank(wpc[w]) < 8
InPopView(h) == Rank(rpc[h]) < 8

\* Some call returns.
Returns ==
    \/ \E w \in Writers : wpc[w] # "idle" /\ wpc'[w] = "idle"
    \/ \E h \in Readers : rpc[h] # "idle" /\ rpc'[h] = "idle"

\* C14 (progress), the part that holds: every step of a push_single or a
\* pop_view moves it forward in the code, so it returns within 7 (3) steps of
\* its own and, its thread being scheduled, does return; push_multi and pop
\* repeat an iteration only when the head (the group's index) is no longer the
\* one they loaded, that is after another handle's commit; and calls keep
\* returning as long as calls are in progress.
C14_Progress ==
    /\ [][/\ \A w \in Writers :
               /\ (InPushSingle(w) /\ wpc'[w] # wpc[w]) => Rank(wpc'[w]) > Rank(wpc[w])
               /\ (wpc[w] = "pm_commit" /\ wpc'[w] = "pm_check") => head # wtxn[w]
          /\ \A h \in Readers :
               /\ (InPopView(h) /\ rpc'[h] # rpc[h]) => Rank(rpc'[h]) > Rank(rpc[h])
               /\ (rpc[h] = "pop_commit" /\ rpc'[h] = "pop_tag") =>
                      index[rgrp[h]] # ratt[h]]_vars
    /\ \A w \in Writers : InPushSingle(w) ~> (wpc[w] = "idle")
    /\ \A h \in Readers : InPopView(h) ~> (rpc[h] = "idle")
    /\ ([]<><<Returns>>_vars \/ <>[](Busy = 0))

\* C14's case: a push_multi is about to fail its commit, the head having moved
\* on since it loaded it, while a pop_view is in progress.
C14_Witness ==
    /\ \E w \in Writers : wpc[w] = "pm_commit" /\ head # wtxn[w]
    /\ \E h \in Readers : InPopView(h)

\* C14 as stated, its last clause: under fair scheduling every push and every
\* pop call eventually returns.
C14_EveryCallReturns ==
    /\ \A w \in Writers : (wpc[w] # "idle") ~> (wpc[w] = "idle")
    /\ \A h \in Readers : (rpc[h] # "idle") ~> (rpc[h] = "idle")

\* Handle w is writing or has written the value of its slot and has not yet
\* published the slot's tag.
Overwriting(w) == wpc[w] \in {"pm_write", "pm_pub", "ps_write", "ps_commit", "ps_pub"}

\* C15 (no data race on slot values): whenever a pop or a pop_view is about to
\* read a slot's value, the slot carries the tag of the reader's attempt and no
\* producer is writing it or has written it for a later lap.
C15_NoDataRace ==
    \A h \in Readers :
        rpc[h] \in {"pop_read", "pv_read"} =>
            /\ wraps[Slot(ratt[h])] = ratt[h]
            /\ \A w \in Writers : Overwriting(w) => Slot(wtxn[w]) # Slot(ratt[h])

\* Handle w has claimed the position wtxn[w] on the head and has not yet
\* published the tag of its slot.
Holding(w) == wpc[w] \in {"pm_write", "pm_pub", "ps_pub"}

\* C16 (slot exclusivity among producers): two producers that have both claimed
\* a position and not yet published it hold different positions, in different
\* slots.
C16_SlotExclusive ==
    \A w1, w2 \in Writers :
        (w1 # w2 /\ Holding(w1) /\ Holding(w2)) =>
            (wtxn[w1] # wtxn[w2] /\ Slot(wtxn[w1]) # Slot(wtxn[w2]))

\* Handle w takes the step that writes its value into a slot (ptr::write at
\* line 146 or 168).
Writes(w) == wpc[w] \in {"pm_write", "ps_write"} /\ wpc'[w] # wpc[w]

\* The head has advanced past the position w loaded: the position is claimed.
Claimed(w) == Wrap(head - wtxn[w]) \in 1..(Word \div 2)

\* The slot of w's position carries the tag of that position.
Published(w) == wraps[Slot(wtxn[w])] = wtxn[w]

\* A slot value changes only in a producer's writing step, and only the slot of
\* the position that producer loaded.
OnlyProducersWrite ==
    (vals' # vals) =>
        \E w \in Writers :
            /\ Writes(w)
            /\ \A k \in DOMAIN vals : k # Slot(wtxn[w]) => vals'[k] = vals[k]

\* C17 (producer write window) as stated: in push_multi and in push_single
\* alike, a producer writes a slot's value only once the head has advanced past
\* the position, and before the tag of the position is in the slot.
C17_WriteWindow ==
    [][/\ OnlyProducersWrite
       /\ \A w \in Writers : Writes(w) => (Claimed(w) /\ ~Published(w))]_vars

\* C17, what the code does: push_multi writes between its commit on the head
\* and its tag store; push_single writes before its store of the head, while the
\* head is still the position it loaded; neither writes once the tag is stored.
C17_WriteWindowByPath ==
    [][/\ OnlyProducersWrite
       /\ \A w \in Writers :
              /\ (Writes(w) /\ wpc[w] = "pm_write") => (Claimed(w) /\ ~Published(w))
              /\ (Writes(w) /\ wpc[w] = "ps_write") =>
                     (head = wtxn[w] /\ ~Published(w))]_vars

\* C17's case: a push_single has written the value of a slot in its second lap
\* and has not advanced the head yet.
C17_Witness ==
    \E w \in Writers :
        /\ wpc[w] = "ps_commit"
        /\ wtxn[w] >= capacity
        /\ head = wtxn[w]
        /\ vals[Slot(wtxn[w])] = ValueOf(wtxn[w])

\* The tail cache is not ahead of the position of any group that has a live
\* handle.
TailConservative == \A g \in LiveGroups : tail_cache <= index[g]

\* C18 (tail cache conservative and monotonic): the cached tail is never ahead
\* of a live reader group and never moves backwards, and no push commits a
\* position whose slot a live group has still to consume.
C18_TailCache ==
    /\ [](TailConservative)
    /\ [][/\ tail_cache' >= tail_cache
          /\ head' = head + 1 => \A g \in LiveGroups : index[g] > head - capacity]_vars

\* The positions of the last lap behind the head.
BehindHead == {p \in 0..(head - 1) : p >= head - capacity}

\* C19 (no partial completion) as stated: in no reachable state is the head past
\* a position whose slot does not carry the tag of that position.
C19_NoPartial == \A p \in BehindHead : wraps[Slot(p)] = p

\* C19, what the code does: a push advances the head first and publishes the tag
\* in a later step, so a slot carries only the tag of a position of its own that
\* the head has passed; when a push returns Ok both are done, and when it returns
\* Err it has changed neither the head nor any slot.
C19_HeadThenTag ==
    /\ [](\A s \in DOMAIN wraps :
             wraps[s] # INITIAL_QUEUE_FLAG => (wraps[s] < head /\ Slot(wraps[s]) = s))
    /\ [][\A w \in Writers :
             /\ PushOk(w) => (head' > wtxn[w] /\ wraps'[Slot(wtxn[w])] = wtxn[w])
             /\ PushErr(w) => (head' = head /\ wraps' = wraps /\ vals' = vals)]_vars

\* C19's case: a producer has advanced the head past its position and not yet
\* published the slot, and a consumer is about to test the tag of that position.
C19_Witness ==
    \E w \in Writers, h \in Readers :
        /\ Holding(w) /\ head > wtxn[w] /\ ~Published(w)
        /\ rpc[h] \in {"pop_tag", "pv_tag"} /\ ratt[h] = wtxn[w]

C21_SingleExclusive ==
    \A w \in Writers :
        /\ (walive[w] /\ wmode[w] = "Single") => LiveWriters = {w}
        /\ InPushSingle(w) =>
               /\ walive[w] /\ wmode[w] = "Single"
               /\ \A x \in Writers \ {w} : ~walive[x] /\ wpc[x] = "idle"
               /\ wpc[w] \in {"ps_check", "ps_scan", "ps_store", "ps_write", "ps_commit"}
                      => head = wtxn[w]

\* C21's case: the second handle, alone after the first was dropped, is about
\* to do the plain tail_cache store of reload_tail_single.
C21_Witness == ~walive["w1"] /\ walive["w2"] /\ wpc["w2"] = "ps_store"

====
